---------------------------- MODULE Spec2Model ----------------------------
(***************************************************************************)
(* A model of dashboard/modules/snapshot/snapshot_head.py (class APIHead): *)
(* the /api/snapshot handler with its five concurrent fetches, the         *)
(* Actor x Deployment join of get_actor_info, the deployment snapshot      *)
(* resolver get_serve_info.get_deployments running on the two-thread pool, *)
(* the job activity classifier _get_job_activity_info, the /api/actors/kill *)
(* handler kill_actor_gcs, and get_job_info awaited on its own.            *)
(*                                                                         *)
(* Event-loop code between two awaits is one action.  Code running on a    *)
(* pool thread is one action per metadata-store call, because the store is *)
(* written by the serve controllers while a scan is in progress.           *)
(***************************************************************************)
EXTENDS Integers, Sequences, FiniteSets, TLC

(***************************************************************************)
(* Bounds of the model.                                                    *)
(***************************************************************************)
\* longest actor table the actor registry returns
MaxActors == 2
\* number of writes the serve controllers make to their keys during a run
MaxKvWrites == 1
\* number of requests whose blocking sub-calls share the thread pool
MaxRequests == 2
\* longest job table the job registry returns to the activity classifier
MaxJobs == 3

(***************************************************************************)
(* Values.                                                                 *)
(***************************************************************************)
EmptyMap == [x \in {} |-> x]

\* Replace dict d's value at key k (d[k] = v of Python).
DictSet(d, k, v) == [x \in DOMAIN d \cup {k} |-> IF x = k THEN v ELSE d[x]]

\* dict.update: the entries of d, overwritten and extended by those of e.
DictUpdate(d, e) == [x \in DOMAIN d \cup DOMAIN e |-> IF x \in DOMAIN e THEN e[x] ELSE d[x]]

\* the requests of a run
Requests == 1..MaxRequests

\* the request whose /api/snapshot handler is followed statement by
\* statement; of the others the sub-calls handed to the pool are followed
Followed == {1}

\* actor ids the registry can return; 0 is the id of an actor that has died
\* and is still listed as a replica in a deployment snapshot
ActorIds == 1..MaxActors

DeadActorId == 0

(***************************************************************************)
(* The serve namespace of the internal KV store.                           *)
(* A key is the sequence of its ':'-separated parts.                       *)
(***************************************************************************)
SERVE_CONTROLLER_NAME == "SERVE_CONTROLLER_ACTOR"

SERVE_SNAPSHOT_KEY == "serve-deployments-snapshot"

\* the snapshot key of a controller, and of a second controller whose name
\* carries random letters; the third key is a controller key of another kind
Key1 == <<SERVE_CONTROLLER_NAME, SERVE_SNAPSHOT_KEY>>

Key2 == <<SERVE_CONTROLLER_NAME, "xQzA", SERVE_SNAPSHOT_KEY>>

Key3 == <<SERVE_CONTROLLER_NAME, "serve-controller-checkpoint">>

ServeKeys == {Key1, Key2, Key3}

\* SERVE_SNAPSHOT_KEY in str(k)
IsSnapshotKey(k) == \E i \in 1..Len(k) : k[i] = SERVE_SNAPSHOT_KEY

\* stored bytes: nothing stored, b"", bytes that are not JSON, or the JSON
\* text of an object
NoValue == [kind |-> "none"]

EmptyBytes == [kind |-> "empty"]

Malformed == [kind |-> "malformed"]

JsonText(obj) == [kind |-> "json", obj |-> obj]

Replica(tag, version) == [replica_tag |-> tag, version |-> version]

\* what a controller serialises: deployment name -> info
DocA == "svc" :> [name |-> "svc", actors |-> (1 :> Replica("svc#t1", "v1"))]

\* two deployments without replicas whose names differ by their case style
DocCaseStyles ==
    ("my_app" :> [name |-> "my_app", actors |-> EmptyMap])
    @@ ("myApp" :> [name |-> "myApp", actors |-> EmptyMap])

DocB == ("svc" :> [name |-> "svc",
                   actors |-> (1 :> Replica("svc#t2", "v2")
                               @@ DeadActorId :> Replica("svc#t3", "v2"))])
        @@ ("web" :> [name |-> "web", actors |-> (2 :> Replica("web#t1", "v1"))])
        @@ DocCaseStyles

\* an info object that carries only its actors map
DocC == "svc" :> [actors |-> (1 :> Replica("t", "v"))]

Docs == {DocA, DocB, DocC}

DeploymentNames == {"svc", "web", "my_app", "myApp"}

SnapshotValues == {NoValue, EmptyBytes, Malformed} \cup {JsonText(d) : d \in Docs}

\* json.loads of stored bytes: the object, or JSONDecodeError
json_loads(bytes) ==
    IF bytes.kind = "json" THEN [ok |-> TRUE, obj |-> bytes.obj]
    ELSE [ok |-> FALSE, obj |-> EmptyMap]

\* the key the dashboard agent's conversion to camel case makes of a name
CamelCase(name) ==
    CASE name = "my_app" -> "myApp"
      [] OTHER -> name

\* hashlib.sha1(name.encode()).hexdigest()
sha1_hexdigest(name) ==
    CASE name = "svc" -> "a0089182becd921781d5ba1e58fa4d129b24060f"
      [] name = "web" -> "ca84d1343b96baa8137c943ed1860e522cacb238"
      [] name = "my_app" -> "02687489ab43db5175c636669da90e1f60ade101"
      [] name = "myApp" -> "f09fd667785a6ff44bd958473692dc5db29b8dfe"


(***************************************************************************)
(* get_serve_info.get_deployments: the pure part.                          *)
(***************************************************************************)
\* a default that is taken for a missing value only
OrEmptyObjectIfNone(bytes) ==
    IF bytes.kind = "none" THEN JsonText(EmptyMap) ELSE bytes

\* _internal_kv_get(...) or "{}".encode("utf-8")
OrEmptyObject(bytes) ==
    IF bytes.kind \in {"none", "empty"} THEN JsonText(EmptyMap) ELSE bytes

RECURSIVE MergeFirstWins(_)
\* a merge in which the first key scanned wins a name
MergeFirstWins(per_controller) ==
    IF per_controller = <<>> THEN EmptyMap
    ELSE DictUpdate(per_controller[Len(per_controller)],
                    MergeFirstWins(SubSeq(per_controller, 1, Len(per_controller) - 1)))

RECURSIVE MergeControllers(_)
\* {k: v for d in deployments_per_controller for k, v in d.items()}
MergeControllers(per_controller) ==
    IF per_controller = <<>> THEN EmptyMap
    ELSE DictUpdate(MergeControllers(SubSeq(per_controller, 1, Len(per_controller) - 1)),
                    per_controller[Len(per_controller)])

\* {sha1(name).hexdigest(): info for name, info in deployments.items()}
HashNames(deployments) ==
    [h \in {sha1_hexdigest(n) : n \in DOMAIN deployments} |->
        deployments[CHOOSE n \in DOMAIN deployments : sha1_hexdigest(n) = h]]

\* the value get_deployments returns from the parsed values, in scan order
ResolveParsed(per_controller) == HashNames(MergeControllers(per_controller))

(***************************************************************************)
(* get_actor_info: the actor entry and the join.                           *)
(***************************************************************************)
\* the entry built for an actor table record; of its fields the model keeps
\* the metadata side map
ActorEntry == [metadata |-> EmptyMap]

\* every replica actor id of every deployment
ReplicaIds(deployments) ==
    UNION {DOMAIN deployments[h]["actors"] : h \in DOMAIN deployments}

\* the deployments (hashed names) that list actor id a as a replica
ListedIn(deployments, a) ==
    {h \in DOMAIN deployments : a \in DOMAIN deployments[h]["actors"]}

\* a join without the membership test
JoinTargetsUnchecked(actors, deployments) == ReplicaIds(deployments)

\* the replicas the join writes to: if replica_actor_id in actors
JoinTargets(actors, deployments) ==
    {a \in ReplicaIds(deployments) : a \in DOMAIN actors}

\* KeyError: deployment_info["name"] of an info without a name, or
\* actors[replica_actor_id] of an id that is not in actors
JoinRaises(actors, deployments) ==
    \E a \in JoinTargets(actors, deployments) :
        \/ a \notin DOMAIN actors
        \/ \E h \in ListedIn(deployments, a) : "name" \notin DOMAIN deployments[h]

ServeMetadata(info, a) ==
    [replica_tag |-> info["actors"][a]["replica_tag"],
     deployment_name |-> info["name"],
     version |-> info["actors"][a]["version"]]

\* the two nested loops over deployments and their replicas (no deployment of
\* the modelled store shares a replica with another, so their order is
\* immaterial)
JoinActors(actors, deployments) ==
    [a \in DOMAIN actors |->
        IF a \notin JoinTargets(actors, deployments) THEN actors[a]
        ELSE LET h == CHOOSE x \in ListedIn(deployments, a) : TRUE
             IN  [actors[a] EXCEPT !.metadata =
                    DictSet(@, "serve", ServeMetadata(deployments[h], a))]]

\* a join that takes the replicas it has handled out of the deployment
JoinDeploymentsConsuming(actors, deployments) ==
    [h \in DOMAIN deployments |->
        [deployments[h] EXCEPT !["actors"] =
            [a \in DOMAIN @ \ DOMAIN actors |-> @[a]]]]

\* the dict deployments after the two loops: they read deployment_info and
\* actor_info and assign only to the new dict serve_metadata and to actors
JoinDeployments(actors, deployments) == deployments

(***************************************************************************)
(* State.                                                                  *)
(***************************************************************************)
PoolKinds == {"serve", "actor", "session"}

\* a blocking sub-call handed to the thread pool: the get_deployments of a
\* request's get_serve_info ("serve"), the get_deployments of its
\* get_actor_info ("actor"), the get_session of its get_session_name
Tasks == Requests \X PoolKinds

VARIABLES
    kv,             \* serve namespace of the KV store: key -> stored bytes
    kvWrites,       \* writes made by the controllers so far
    serveInstalled, \* whether ray.serve can be imported by this process
    resp,           \* per request: "none", "pending", "ok" or "error"
    snap,           \* per request: the snapshot payload of the response
    jobsF,          \* per request: get_job_info
    jobsubF,        \* per request: get_job_submission_info
    serveF,         \* per request: get_serve_info of the gather
    serveData,      \* per request: its result
    sessF,          \* per request: get_session_name
    actorPc,        \* per request: get_actor_info's position
    reply,          \* per request: actor ids of reply.actor_table_data
    idx,            \* per request: the loop's position in reply
    actors,         \* per request: the local dict actors
    deployments,    \* per request: the local dict deployments
    resolverCalls,  \* per request: calls of get_serve_info by get_actor_info
    queue,          \* the pool's work queue
    task,           \* per task: its phase, locals and result
    actPc,          \* /api/component_activities: the handler's position
    actQuery,       \* the timeout parameter of its request
    actTimeout,     \* its local timeout
    actReply,       \* reply.job_info_list of its GetAllJobInfo
    actResult,      \* the RayActivityResponse it returns
    killPc,         \* /api/actors/kill: the handler's position
    killQuery,      \* the query of its request
    killFlags,      \* its locals force_kill and no_restart
    killRequests,   \* the KillActorViaGcs requests it has sent
    killResp,       \* the response it returns
    jobReply,       \* per request: the reply of get_job_info's GetAllJobInfo
    jobStore,       \* per request: the Job Submission Store as get_job_info read it
    jobsData,       \* per request: the dict get_job_info returns
    testPc,         \* test_get_non_exist_output: the test's position
    wfLock,         \* its file lock: "free" or "test"
    wfStatus,       \* the workflow: "none", "running" or "finished"
    wfOutputs,      \* the outputs of the workflow's finished steps, by name
    wfRefs,         \* the object refs of run_async and get_output
    wfGot,          \* what ray.get has returned or raised for them
    inlineOps       \* per request: the store reads and JSON decodes that the
                    \* event-loop thread has executed itself

envVars == <<kv, kvWrites, serveInstalled>>

topVars == <<resp, snap, jobsF, jobsubF, serveF, serveData, sessF>>

actorVars == <<actorPc, reply, idx, actors, deployments, resolverCalls>>

poolVars == <<queue, task>>

activityVars == <<actPc, actQuery, actTimeout, actReply, actResult>>

killVars == <<killPc, killQuery, killFlags, killRequests, killResp>>

\* the state of the handlers other than /api/snapshot
jobVars == <<jobReply, jobStore, jobsData>>

wfVars == <<testPc, wfLock, wfStatus, wfOutputs, wfRefs, wfGot>>

handlerVars == <<activityVars, killVars, jobVars, wfVars>>

otherVars == <<handlerVars, inlineOps>>

vars == <<envVars, topVars, actorVars, poolVars, otherVars>>

NoActivity == [kind |-> "none"]

\* no response with a snapshot has been returned
NoSnapshot == [sent |-> FALSE]

\* no request has been received, no response returned
NoQuery == [received |-> FALSE]

NoResponse == [returned |-> FALSE]

\* no reply of the registry has been received
NoReply == [received |-> FALSE]

IdleTask == [phase |-> "idle", keys |-> <<>>, vals |-> <<>>,
             res |-> [ok |-> TRUE, val |-> EmptyMap]]

\* the stores in which the two snapshot keys hold values of set V; the third
\* key holds a controller checkpoint, which is not JSON
Stores(V) == {f \in [ServeKeys -> V \cup {Malformed}] : f[Key3] = Malformed}

\* the state after APIHead.__init__ and run, with no request made
Started ==
    /\ kvWrites = 0
    /\ serveInstalled \in BOOLEAN
    /\ resp = [r \in Requests |-> "none"]
    /\ snap = [r \in Requests |-> NoSnapshot]
    /\ jobsF = [r \in Requests |-> "none"]
    /\ jobsubF = [r \in Requests |-> "none"]
    /\ serveF = [r \in Requests |-> "none"]
    /\ serveData = [r \in Requests |-> EmptyMap]
    /\ sessF = [r \in Requests |-> "none"]
    /\ actorPc = [r \in Requests |-> "none"]
    /\ reply = [r \in Requests |-> <<>>]
    /\ idx = [r \in Requests |-> 1]
    /\ actors = [r \in Requests |-> EmptyMap]
    /\ deployments = [r \in Requests |-> EmptyMap]
    /\ resolverCalls = [r \in Requests |-> 0]
    /\ queue = <<>>
    /\ task = [t \in Tasks |-> IdleTask]
    /\ actPc = "none"
    /\ actQuery = <<"None">>
    /\ actTimeout = 0
    /\ actReply = <<>>
    /\ actResult = NoActivity
    /\ killPc = "none"
    /\ killQuery = NoQuery
    /\ killFlags = [force_kill |-> FALSE, no_restart |-> FALSE]
    /\ killRequests = <<>>
    /\ killResp = NoResponse
    /\ jobReply = [r \in Requests |-> NoReply]
    /\ jobStore = [r \in Requests |-> EmptyMap]
    /\ jobsData = [r \in Requests |-> EmptyMap]
    /\ testPc = "start"
    /\ wfLock = "free"
    /\ wfStatus = "none"
    /\ wfOutputs = EmptyMap
    /\ wfRefs = EmptyMap
    /\ wfGot = EmptyMap
    /\ inlineOps = [r \in Requests |-> {}]

\* the stores the handler is run against: the first controller has written
\* a snapshot, possibly one that cannot be decoded; the second has written
\* one or none
Init ==
    /\ kv \in {f \in Stores(SnapshotValues) :
                 /\ f[Key1] \in {JsonText(DocA), Malformed}
                 /\ f[Key2] \in {NoValue, JsonText(DocB)}}
    /\ Started

\* the store the pool is run against: both controllers have written
InitPool ==
    /\ kv \in {f \in Stores(SnapshotValues) :
                 f[Key1] = JsonText(DocA) /\ f[Key2] = JsonText(DocB)}
    /\ Started

InitJoin ==
    /\ kv \in Stores(SnapshotValues)
    /\ Started

\* the store of a cluster with one controller, which has written its snapshot
InitOneController ==
    /\ kv \in {f \in Stores(SnapshotValues) :
                 f[Key1] = JsonText(DocA) /\ f[Key2] = NoValue}
    /\ Started


(***************************************************************************)
(* The thread pool (ThreadPoolExecutor) and run_in_executor.               *)
(***************************************************************************)
max_workers == 2

RunningPhases == {"listing", "getting", "reading"}

Running == {t \in Tasks : task[t].phase \in RunningPhases}

\* a pool that starts a thread for every call
WorkerAlwaysFree == TRUE

\* the pool starts a queued call only on a free worker thread
WorkerFree == Cardinality(Running) < max_workers

RECURSIVE SeqRange(_)
SeqRange(s) == IF s = <<>> THEN {} ELSE {Head(s)} \cup SeqRange(Tail(s))

\* run_in_executor(executor=self._thread_pool, ...) of the calls ts, in order
Submitted(ts) ==
    /\ queue' = queue \o ts
    /\ task' = [t \in Tasks |->
                  IF t \in SeqRange(ts) THEN [IdleTask EXCEPT !.phase = "queued"]
                  ELSE task[t]]

\* the awaited future of call t is done: its result, or its exception
Finished(t) == task[t].phase = "finished"

PoolStart ==
    /\ queue # <<>>
    /\ WorkerFree
    /\ LET t == Head(queue) IN
         task' = [task EXCEPT ![t].phase =
                    IF t[2] = "session" THEN "reading" ELSE "listing"]
    /\ queue' = Tail(queue)
    /\ UNCHANGED <<envVars, topVars, actorVars, otherVars>>

(***************************************************************************)
(* get_deployments on a pool thread.                                       *)
(***************************************************************************)
\* the orders in which _internal_kv_list can return the keys of set S
Orders(S) ==
    {o \in [1..Cardinality(S) -> S] : \A i, j \in 1..Cardinality(S) : o[i] = o[j] => i = j}

RECURSIVE FilterSnapshotKeys(_)
\* filter(lambda k: SERVE_SNAPSHOT_KEY in str(k), serve_keys)
FilterSnapshotKeys(keys) ==
    IF keys = <<>> THEN <<>>
    ELSE IF IsSnapshotKey(Head(keys))
         THEN <<Head(keys)>> \o FilterSnapshotKeys(Tail(keys))
         ELSE FilterSnapshotKeys(Tail(keys))

\* _internal_kv_list(SERVE_CONTROLLER_NAME, ...): the stored keys with that prefix
StoredKeys == {k \in ServeKeys : kv[k] # NoValue /\ k[1] = SERVE_CONTROLLER_NAME}

Returned(t, value) ==
    [phase |-> "finished", keys |-> <<>>, vals |-> task[t].vals,
     res |-> [ok |-> TRUE, val |-> value]]

\* a call whose exception is dropped: the thread is given back and the
\* future is never done
RaisedUnreported(t) == [IdleTask EXCEPT !.vals = task[t].vals]

\* the call raised: the future is done with the exception
Raised(t) ==
    [phase |-> "finished", keys |-> <<>>, vals |-> <<>>,
     res |-> [ok |-> FALSE, val |-> EmptyMap]]

\* lines 262-267: list the keys and keep the snapshot keys
ScanKeys(t) ==
    /\ task[t].phase = "listing"
    /\ \E order \in Orders(StoredKeys) :
         LET keys == FilterSnapshotKeys(order) IN
           task' = [task EXCEPT ![t] =
                      IF keys = <<>> THEN Returned(t, ResolveParsed(<<>>))
                      ELSE [@ EXCEPT !.phase = "getting", !.keys = keys]]
    /\ UNCHANGED <<queue, envVars, topVars, actorVars, otherVars>>

\* lines 270-285: one iteration of the loop over the snapshot keys and, after
\* the last one, the merge and the hashing
GetKey(t) ==
    /\ task[t].phase = "getting"
    /\ LET val_bytes == OrEmptyObject(kv[Head(task[t].keys)])
           parsed == json_loads(val_bytes)
           vals == Append(task[t].vals, parsed.obj)
           rest == Tail(task[t].keys)
       IN  task' = [task EXCEPT ![t] =
                      IF ~parsed.ok THEN Raised(t)
                      ELSE IF rest = <<>>
                           THEN [Returned(t, ResolveParsed(vals)) EXCEPT !.vals = vals]
                           ELSE [@ EXCEPT !.keys = rest, !.vals = vals]]
    /\ UNCHANGED <<queue, envVars, topVars, actorVars, otherVars>>

\* get_session on a pool thread: _internal_kv_get("session_name").decode();
\* the key is in another namespace, which the model does not keep
GetSession(t) ==
    /\ task[t].phase = "reading"
    /\ \E stored \in {NoValue, [kind |-> "text", text |-> "session_latest"]} :
         task' = [task EXCEPT ![t] =
                    IF stored = NoValue THEN Raised(t)
                    ELSE Returned(t, [text |-> stored.text])]
    /\ UNCHANGED <<queue, envVars, topVars, actorVars, otherVars>>


(***************************************************************************)
(* get_serve_info on the event loop.                                       *)
(***************************************************************************)
\* imports that are taken to succeed
ServeAlwaysImportable == TRUE

\* the try/except around the imports of ray.serve: TRUE when they succeed
ServeImportable == serveInstalled

(***************************************************************************)
(* The /api/snapshot handler.                                              *)
(***************************************************************************)
\* snapshot, up to the await of gather: each of the five coroutines runs to
\* its first suspension.  get_job_info and get_actor_info send their RPC,
\* get_job_submission_info has no await and completes or raises,
\* get_serve_info returns {} or hands get_deployments to the pool,
\* get_session_name hands get_session to the pool.
Snapshot(r) ==
    /\ resp[r] = "none"
    /\ resp' = [resp EXCEPT ![r] = "pending"]
    /\ jobsF' = [jobsF EXCEPT ![r] = "rpc"]
    /\ \E outcome \in {"ok", "err"} : jobsubF' = [jobsubF EXCEPT ![r] = outcome]
    /\ actorPc' = [actorPc EXCEPT ![r] = "rpc"]
    /\ sessF' = [sessF EXCEPT ![r] = "wait"]
    /\ IF ServeImportable
       THEN /\ serveF' = [serveF EXCEPT ![r] = "wait"]
            /\ Submitted(<<<<r, "serve">>, <<r, "session">>>>)
       ELSE /\ serveF' = [serveF EXCEPT ![r] = "ok"]
            /\ Submitted(<<<<r, "session">>>>)
    /\ UNCHANGED <<snap, serveData, reply, idx, actors, deployments,
                   resolverCalls, envVars>>
    /\ UNCHANGED otherVars

\* get_job_info after GetAllJobInfo(timeout=5): the reply is built into the
\* jobs dict, or the call times out, or RuntimeEnv.deserialize raises
JobsReply(r) ==
    /\ jobsF[r] = "rpc"
    /\ \E outcome \in {"ok", "err"} : jobsF' = [jobsF EXCEPT ![r] = outcome]
    /\ UNCHANGED <<resp, snap, jobsubF, serveF, serveData, sessF,
                   envVars, actorVars, poolVars>>
    /\ UNCHANGED otherVars

\* get_serve_info of the gather resumes with the pool's result
ServeDone(r) ==
    /\ serveF[r] = "wait"
    /\ Finished(<<r, "serve">>)
    /\ LET res == task[<<r, "serve">>].res IN
         /\ serveF' = [serveF EXCEPT ![r] = IF res.ok THEN "ok" ELSE "err"]
         /\ serveData' = [serveData EXCEPT ![r] = res.val]
    /\ task' = [task EXCEPT ![<<r, "serve">>] = IdleTask]
    /\ UNCHANGED <<resp, snap, jobsF, jobsubF, sessF, queue, envVars, actorVars>>
    /\ UNCHANGED otherVars

\* get_session_name resumes with the pool's result
SessionDone(r) ==
    /\ sessF[r] = "wait"
    /\ Finished(<<r, "session">>)
    /\ sessF' = [sessF EXCEPT ![r] =
                   IF task[<<r, "session">>].res.ok THEN "ok" ELSE "err"]
    /\ task' = [task EXCEPT ![<<r, "session">>] = IdleTask]
    /\ UNCHANGED <<resp, snap, jobsF, jobsubF, serveF, serveData, queue,
                   envVars, actorVars>>
    /\ UNCHANGED otherVars

(***************************************************************************)
(* get_actor_info.                                                         *)
(***************************************************************************)
\* the actor tables the registry can return: distinct ids in any order
ActorTables ==
    UNION {{s \in [1..n -> ActorIds] : \A i, j \in 1..n : s[i] = s[j] => i = j} :
             n \in 0..MaxActors}

\* json.loads(actor_table_entry.serialized_runtime_env), line 215
RuntimeEnvDecode == "json.loads(serialized_runtime_env)"

\* serialized_runtime_env of an actor table record
RuntimeEnvs == {JsonText(EmptyMap), Malformed}

ActorStatus(r) ==
    CASE actorPc[r] = "done" -> "ok"
      [] actorPc[r] = "err" -> "err"
      [] OTHER -> "running"

\* the coroutine raised: its locals are gone
ActorRaised(r) ==
    /\ actorPc' = [actorPc EXCEPT ![r] = "err"]
    /\ reply' = [reply EXCEPT ![r] = <<>>]
    /\ idx' = [idx EXCEPT ![r] = 1]
    /\ actors' = [actors EXCEPT ![r] = EmptyMap]
    /\ deployments' = [deployments EXCEPT ![r] = EmptyMap]

\* lines 209-211: the request is built and GetAllActorInfo is sent
GetActorInfoCalled(r) == actorPc' = [actorPc EXCEPT ![r] = "rpc"]

\* get_actor_info awaited on its own
GetActorInfo(r) ==
    /\ actorPc[r] = "none"
    /\ resp[r] = "none"
    /\ GetActorInfoCalled(r)
    /\ UNCHANGED <<reply, idx, actors, deployments, resolverCalls,
                   envVars, topVars, poolVars>>
    /\ UNCHANGED otherVars

\* GetAllActorInfo(timeout=5) returns, or times out
ActorReply(r) ==
    /\ actorPc[r] = "rpc"
    /\ \/ \E table \in ActorTables :
            /\ actorPc' = [actorPc EXCEPT ![r] = "loop"]
            /\ reply' = [reply EXCEPT ![r] = table]
            /\ UNCHANGED <<idx, actors, deployments>>
       \/ ActorRaised(r)
    /\ UNCHANGED <<resolverCalls, envVars, topVars, poolVars>>
    /\ UNCHANGED otherVars

\* lines 213-237: the runtime env of the next actor table record is decoded
\* by json.loads, in the coroutine itself, the record is entered in actors and
\* get_serve_info is called; or, after the last record, line 246
ActorLoop(r) ==
    /\ actorPc[r] = "loop"
    /\ IF idx[r] > Len(reply[r])
       THEN /\ actorPc' = [actorPc EXCEPT ![r] = "done"]
            /\ UNCHANGED <<reply, idx, actors, deployments, resolverCalls, poolVars,
                           inlineOps>>
       ELSE /\ inlineOps' = [inlineOps EXCEPT ![r] = @ \cup {RuntimeEnvDecode}]
            /\ \E env \in RuntimeEnvs :
              IF ~json_loads(env).ok
              THEN /\ ActorRaised(r)
                   /\ UNCHANGED <<resolverCalls, poolVars>>
              ELSE LET entered == DictSet(actors[r], reply[r][idx[r]], ActorEntry) IN
                   /\ resolverCalls' = [resolverCalls EXCEPT ![r] = @ + 1]
                   /\ UNCHANGED reply
                   /\ IF ServeImportable
                      THEN /\ actors' = [actors EXCEPT ![r] = entered]
                           /\ actorPc' = [actorPc EXCEPT ![r] = "await"]
                           /\ Submitted(<<<<r, "actor">>>>)
                           /\ UNCHANGED <<idx, deployments>>
                      ELSE \* get_serve_info returns {} without suspending
                           /\ deployments' = [deployments EXCEPT ![r] = EmptyMap]
                           /\ actors' = [actors EXCEPT ![r] = JoinActors(entered, EmptyMap)]
                           /\ idx' = [idx EXCEPT ![r] = @ + 1]
                           /\ UNCHANGED <<actorPc, poolVars>>
    /\ UNCHANGED <<envVars, topVars>>
    /\ UNCHANGED handlerVars

\* lines 237-245: get_serve_info's result arrives and the join runs
ActorJoin(r) ==
    /\ actorPc[r] = "await"
    /\ Finished(<<r, "actor">>)
    /\ LET res == task[<<r, "actor">>].res IN
         IF ~res.ok \/ JoinRaises(actors[r], res.val)
         THEN ActorRaised(r)
         ELSE /\ deployments' = [deployments EXCEPT ![r] =
                                   JoinDeployments(actors[r], res.val)]
              /\ actors' = [actors EXCEPT ![r] = JoinActors(actors[r], res.val)]
              /\ idx' = [idx EXCEPT ![r] = @ + 1]
              /\ actorPc' = [actorPc EXCEPT ![r] = "loop"]
              /\ UNCHANGED reply
    /\ task' = [task EXCEPT ![<<r, "actor">>] = IdleTask]
    /\ UNCHANGED <<resolverCalls, queue, envVars, topVars>>
    /\ UNCHANGED otherVars

(***************************************************************************)
(* asyncio.gather and the response.                                        *)
(***************************************************************************)
Fetches(r) == <<jobsF[r], jobsubF[r], ActorStatus(r), serveF[r], sessF[r]>>

\* a gather that collects exceptions as results (return_exceptions=True)
GatherReturnsFinished(r) == \A i \in 1..5 : Fetches(r)[i] \in {"ok", "err"}

\* a wait that returns with the first result (FIRST_COMPLETED)
GatherReturnsFirst(r) == \E i \in 1..5 : Fetches(r)[i] = "ok"

\* gather returns the five results: every coroutine has returned
GatherReturns(r) == \A i \in 1..5 : Fetches(r)[i] = "ok"

\* gather raises the exception of a coroutine as soon as one has raised
GatherRaises(r) == \E i \in 1..5 : Fetches(r)[i] = "err"

\* lines 96-107: the snapshot is assembled and the success response returned
Respond(r) ==
    /\ resp[r] = "pending"
    /\ GatherReturns(r)
    /\ resp' = [resp EXCEPT ![r] = "ok"]
    /\ snap' = [snap EXCEPT ![r] =
                  [sent |-> TRUE, actors |-> actors[r], deployments |-> serveData[r]]]
    /\ UNCHANGED <<jobsF, jobsubF, serveF, serveData, sessF, envVars, actorVars, poolVars>>
    /\ UNCHANGED otherVars

\* the exception leaves the handler: the request fails; the other coroutines
\* of the gather are not cancelled
Fail(r) ==
    /\ resp[r] = "pending"
    /\ GatherRaises(r)
    /\ resp' = [resp EXCEPT ![r] = "error"]
    /\ UNCHANGED <<snap, jobsF, jobsubF, serveF, serveData, sessF, envVars,
                   actorVars, poolVars>>
    /\ UNCHANGED otherVars

(***************************************************************************)
(* The serve controllers.                                                  *)
(***************************************************************************)
\* a controller writes or deletes one of the snapshot keys
KvPut ==
    /\ kvWrites < MaxKvWrites
    /\ \E k \in {Key1, Key2} :
         \E v \in SnapshotValues \ {kv[k]} : kv' = [kv EXCEPT ![k] = v]
    /\ kvWrites' = kvWrites + 1
    /\ UNCHANGED <<serveInstalled, topVars, actorVars, poolVars>>
    /\ UNCHANGED otherVars

\* the pool threads
PoolNext ==
    \/ PoolStart
    \/ \E t \in Tasks : ScanKeys(t) \/ GetKey(t) \/ GetSession(t)

\* get_actor_info after its call
ActorNext ==
    \E r \in Followed :
        \/ ActorReply(r)
        \/ ActorLoop(r)
        \/ ActorJoin(r)

\* a /api/snapshot request served from a store that is not written meanwhile
Next ==
    \/ PoolNext
    \/ ActorNext
    \/ \E r \in Followed :
         \/ Snapshot(r)
         \/ JobsReply(r)
         \/ ServeDone(r)
         \/ SessionDone(r)
         \/ Respond(r)
         \/ Fail(r)

Spec == Init /\ [][Next]_vars

\* a /api/snapshot request during which the controllers write their keys
NextWrites ==
    \/ Next
    \/ KvPut

SpecWrites == InitOneController /\ [][NextWrites]_vars

\* an execution of get_actor_info while the controllers write their keys
NextJoin ==
    \/ KvPut
    \/ PoolStart
    \/ \E t \in Tasks : ScanKeys(t) \/ GetKey(t)
    \/ ActorNext
    \/ \E r \in Followed : GetActorInfo(r)

SpecJoin == InitJoin /\ [][NextJoin]_vars

\* get_serve_info awaited on its own, up to its return or suspension
GetServeInfo(r) ==
    /\ serveF[r] = "none"
    /\ resp[r] = "none"
    /\ IF ServeImportable
       THEN /\ serveF' = [serveF EXCEPT ![r] = "wait"]
            /\ Submitted(<<<<r, "serve">>>>)
       ELSE /\ serveF' = [serveF EXCEPT ![r] = "ok"]
            /\ UNCHANGED poolVars
    /\ UNCHANGED <<resp, snap, jobsF, jobsubF, serveData, sessF, envVars,
                   actorVars, otherVars>>

\* get_session_name awaited on its own, up to its suspension
GetSessionName(r) ==
    /\ sessF[r] = "none"
    /\ resp[r] = "none"
    /\ sessF' = [sessF EXCEPT ![r] = "wait"]
    /\ Submitted(<<<<r, "session">>>>)
    /\ UNCHANGED <<resp, snap, jobsF, jobsubF, serveF, serveData, envVars,
                   actorVars, otherVars>>

\* the blocking sub-calls of concurrent requests on the one pool
NextPool ==
    \/ PoolNext
    \/ \E r \in Requests :
         \/ GetServeInfo(r)
         \/ GetSessionName(r)
         \/ ServeDone(r)
         \/ SessionDone(r)

SpecPool == InitPool /\ [][NextPool]_vars


\* the steps that the pool threads and the event loop take once they are
\* ready: a pool call starts or goes on, an RPC returns or times out, a
\* coroutine whose future is done is resumed, the gather returns or raises
Steps ==
    \/ PoolNext
    \/ ActorNext
    \/ \E r \in Followed :
         \/ JobsReply(r)
         \/ ServeDone(r)
         \/ Respond(r)
         \/ Fail(r)
    \/ \E r \in Requests : SessionDone(r)

\* concurrent /api/snapshot requests on the one event loop and the one pool:
\* the followed request, and the get_session calls of the other requests
NextProgress ==
    \/ Steps
    \/ \E r \in Followed : Snapshot(r)
    \/ \E r \in Requests \ Followed : GetSessionName(r)

\* every RPC returns or times out, every store read returns, and the event
\* loop resumes what is ready: a step that can be taken is taken
SpecProgress == InitOneController /\ [][NextProgress]_vars /\ WF_vars(Steps)


(***************************************************************************)
(* /api/component_activities and _get_job_activity_info.                   *)
(* A string is the sequence of its parts; a query value of its characters. *)
(***************************************************************************)
\* JobInfoStorageClient.JOB_DATA_KEY_PREFIX, "_ray_internal_job_info_"
JOB_DATA_KEY_PREFIX == <<"_ray_internal", "_job_info_">>

\* str.startswith
startswith(str, prefix) ==
    /\ Len(str) >= Len(prefix)
    /\ SubSeq(str, 1, Len(prefix)) = prefix

\* ray_namespace of a job table entry: a user namespace, the namespace of an
\* internal job, and namespaces that only resemble it
Namespaces ==
    {<<"user">>,
     JOB_DATA_KEY_PREFIX \o <<"x">>,
     <<"_ray_internal">>,
     <<"user">> \o JOB_DATA_KEY_PREFIX}

JobTableEntries == [is_dead : BOOLEAN, ray_namespace : Namespaces]

JobTables == UNION {[1..n -> JobTableEntries] : n \in 0..MaxJobs}

\* a classifier that counts every live driver
IsLiveDriver(job_table_entry) == ~job_table_entry.is_dead

\* the body of the loop of lines 135-141 for one entry
IsActiveDriver(job_table_entry) ==
    LET is_dead == job_table_entry.is_dead
        in_internal_namespace ==
            startswith(job_table_entry.ray_namespace, JOB_DATA_KEY_PREFIX)
    IN  ~is_dead /\ ~in_internal_namespace

RECURSIVE CountActiveDrivers(_)
\* num_active_drivers after the loop over reply.job_info_list
CountActiveDrivers(job_info_list) ==
    IF job_info_list = <<>> THEN 0
    ELSE CountActiveDrivers(Tail(job_info_list))
         + (IF IsActiveDriver(Head(job_info_list)) THEN 1 ELSE 0)

NoReason == [kind |-> "None"]

\* f"Number of active drivers: {num_active_drivers}"
ReasonText(n) == [kind |-> "str", text |-> "Number of active drivers: ", number |-> n]

\* lines 143-149; the timestamp is the wall clock's
RayActivityResponse(num_active_drivers) ==
    [kind |-> "RayActivityResponse",
     is_active |-> num_active_drivers > 0,
     reason |-> IF num_active_drivers # 0 THEN ReasonText(num_active_drivers)
                ELSE NoReason]

Digits == {"0", "1", "2", "3", "4", "5", "6", "7", "8", "9"}

\* a decimal digit of another script (U+0663) and a character that is a
\* digit without being a decimal digit (U+00B2)
ARABIC_INDIC_DIGIT_THREE == "ARABIC-INDIC DIGIT THREE"

SUPERSCRIPT_TWO == "SUPERSCRIPT TWO"

\* the characters int() reads as decimal digits
DecimalDigits == Digits \cup {ARABIC_INDIC_DIGIT_THREE}

\* str.isdigit: every character is a decimal digit or a digit such as a
\* superscript, and there is at least one
isdigit(str) ==
    str # <<>> /\ \A i \in 1..Len(str) : str[i] \in DecimalDigits \cup {SUPERSCRIPT_TWO}

DigitValue(c) ==
    IF c = ARABIC_INDIC_DIGIT_THREE THEN 3 ELSE CHOOSE d \in 0..9 : ToString(d) = c

\* int() raises ValueError: the string is not a decimal literal
IntRaises(str) == str = <<>> \/ \E i \in 1..Len(str) : str[i] \notin DecimalDigits

RECURSIVE int(_)
\* int() of a string of decimal digits
int(str) ==
    IF str = <<>> THEN 0
    ELSE 10 * int(SubSeq(str, 1, Len(str) - 1)) + DigitValue(str[Len(str)])

\* req.query.get("timeout", None) of the modelled requests
NoParam == <<"None">>

TimeoutParams ==
    {NoParam, <<>>, <<"7">>, <<"1", "0">>, <<"0", "7">>, <<"a", "b">>, <<"-", "1">>,
     <<"1", ".", "5">>, <<ARABIC_INDIC_DIGIT_THREE>>, <<SUPERSCRIPT_TWO>>,
     <<"1", SUPERSCRIPT_TWO>>}

\* the test of line 113: timeout and timeout.isdigit()
TimeoutIsDigit(timeout) == timeout # NoParam /\ timeout # <<>> /\ isdigit(timeout)

\* line 114 raises ValueError
ParseTimeoutRaises(timeout) == TimeoutIsDigit(timeout) /\ IntRaises(timeout)

\* lines 112-116
ParseTimeout(timeout) ==
    IF TimeoutIsDigit(timeout) THEN int(timeout) ELSE 5

\* get_component_activities up to the await of GetAllJobInfo, or up to the
\* ValueError of int()
ComponentActivities ==
    /\ actPc = "none"
    /\ \E timeout \in TimeoutParams :
         /\ actQuery' = timeout
         /\ IF ParseTimeoutRaises(timeout)
            THEN actPc' = "raised" /\ UNCHANGED actTimeout
            ELSE actPc' = "rpc" /\ actTimeout' = ParseTimeout(timeout)
    /\ UNCHANGED <<actReply, actResult, envVars, topVars, actorVars, poolVars,
                   killVars, jobVars, wfVars, inlineOps>>

\* GetAllJobInfo(timeout=timeout) returns and the response is built, or the
\* call times out
ActivityReply ==
    /\ actPc = "rpc"
    /\ \/ \E job_info_list \in JobTables :
            /\ actReply' = job_info_list
            /\ actResult' = RayActivityResponse(CountActiveDrivers(job_info_list))
            /\ actPc' = "done"
       \/ /\ actPc' = "err"
          /\ UNCHANGED <<actReply, actResult>>
    /\ UNCHANGED <<actQuery, actTimeout, envVars, topVars, actorVars, poolVars,
                   killVars, jobVars, wfVars, inlineOps>>

NextActivity ==
    \/ ComponentActivities
    \/ ActivityReply

SpecActivity == Init /\ [][NextActivity]_vars

(***************************************************************************)
(* /api/actors/kill.                                                       *)
(* A query value is a str or, when the parameter is absent, the default    *)
(* that req.query.get is given.                                            *)
(***************************************************************************)
\* req.query.get("actor_id") of an absent parameter
None == [none |-> TRUE]

\* req.query.get(..., False) of an absent parameter
False == [bool |-> FALSE]

\* a str
Str(chars) == [str |-> chars]

ActorIdParams ==
    {None, Str(<<>>), Str(<<"a", "b">>), Str(<<"0", "1", "f", "f">>),
     Str(<<"a">>), Str(<<"z", "z">>)}

FlagParams ==
    {False, Str(<<>>), Str(<<"t", "r", "u", "e">>), Str(<<"T", "r", "u", "e">>),
     Str(<<"T", "R", "U", "E">>), Str(<<"1">>), Str(<<"y", "e", "s">>),
     Str(<<"f", "a", "l", "s", "e">>)}

KillQueries == [actor_id : ActorIdParams, force_kill : FlagParams, no_restart : FlagParams]

\* a flag that is read without regard to case
ParseFlagAnyCase(value) ==
    value \in {Str(<<a, b, c, d>>) : a \in {"t", "T"}, b \in {"r", "R"},
                                     c \in {"u", "U"}, d \in {"e", "E"}}

\* req.query.get(..., False) in ("true", "True")
ParseFlag(value) ==
    value \in {Str(<<"t", "r", "u", "e">>), Str(<<"T", "r", "u", "e">>)}

\* a test that holds of the absent parameter only (actor_id is None)
ActorIdIsNone(actor_id) == actor_id = None

\* not actor_id: None and the empty str are falsy
ActorIdMissing(actor_id) == actor_id = None \/ actor_id = Str(<<>>)

HexDigits == <<"0", "1", "2", "3", "4", "5", "6", "7", "8", "9",
               "a", "b", "c", "d", "e", "f">>

IsHexDigit(c) == \E i \in 1..Len(HexDigits) : HexDigits[i] = c

HexValue(c) == (CHOOSE i \in 1..Len(HexDigits) : HexDigits[i] = c) - 1

\* bytes.fromhex raises ValueError: a character that is not a hexadecimal
\* digit, or an odd number of digits
FromHexRaises(chars) ==
    \/ Len(chars) % 2 = 1
    \/ \E i \in 1..Len(chars) : ~IsHexDigit(chars[i])

\* bytes.fromhex: one byte of every two digits
fromhex(chars) ==
    [i \in 1..(Len(chars) \div 2) |->
        16 * HexValue(chars[2 * i - 1]) + HexValue(chars[2 * i])]

\* rest_response(success=..., message=...)
rest_response(success, message) ==
    [returned |-> TRUE, success |-> success, message |-> message]

\* lines 72-77
KillMessage(force_kill, actor_id) ==
    IF force_kill
    THEN <<"Force killed actor with id ", actor_id.str>>
    ELSE <<"Requested actor with id ", actor_id.str, " to terminate. ",
           "It will exit once running tasks complete">>

\* lines 58-70: the query is read and the request sent to the GCS; or the
\* handler returns early, or bytes.fromhex raises
KillActorGcs ==
    /\ killPc = "none"
    /\ \E query \in KillQueries :
         LET actor_id == query.actor_id
             force_kill == ParseFlag(query.force_kill)
             no_restart == ParseFlag(query.no_restart)
         IN  /\ killQuery' = [received |-> TRUE, query |-> query]
             /\ killFlags' = [force_kill |-> force_kill, no_restart |-> no_restart]
             /\ IF ActorIdMissing(actor_id)
                THEN /\ killResp' = rest_response(FALSE, <<"actor_id is required.">>)
                     /\ killPc' = "done"
                     /\ UNCHANGED killRequests
                ELSE IF FromHexRaises(actor_id.str)
                THEN /\ killPc' = "raised"
                     /\ UNCHANGED <<killRequests, killResp>>
                ELSE /\ killRequests' =
                          Append(killRequests,
                                 [actor_id |-> fromhex(actor_id.str),
                                  force_kill |-> force_kill,
                                  no_restart |-> no_restart])
                     /\ killPc' = "rpc"
                     /\ UNCHANGED killResp
    /\ UNCHANGED <<envVars, topVars, actorVars, poolVars, activityVars, jobVars,
                   wfVars, inlineOps>>

\* lines 70-79: KillActorViaGcs(request, timeout=5) returns and the success
\* response is built, or the call fails
KillReply ==
    /\ killPc = "rpc"
    /\ \/ /\ killResp' = rest_response(TRUE, KillMessage(killFlags.force_kill,
                                                        killQuery.query.actor_id))
          /\ killPc' = "done"
       \/ /\ killPc' = "err"
          /\ UNCHANGED killResp
    /\ UNCHANGED <<killQuery, killFlags, killRequests>>
    /\ UNCHANGED <<envVars, topVars, actorVars, poolVars, activityVars, jobVars,
                   wfVars, inlineOps>>

NextKill ==
    \/ KillActorGcs
    \/ KillReply

SpecKill == InitPool /\ [][NextKill]_vars

(***************************************************************************)
(* get_job_info and _get_job_info.                                         *)
(***************************************************************************)
\* ray.dashboard.modules.job.common.JOB_ID_METADATA_KEY
JOB_ID_METADATA_KEY == "job_submission_id"

\* job_id of a job table entry: bytes
JobIds == {<<1>>, <<2>>, <<171>>}

\* bytes.hex: two hexadecimal digits of every byte
hex(bytes) ==
    [i \in 1..(2 * Len(bytes)) |->
        IF i % 2 = 1 THEN HexDigits[(bytes[(i + 1) \div 2] \div 16) + 1]
        ELSE HexDigits[(bytes[i \div 2] % 16) + 1]]

\* config.metadata of a job table entry: without a submission id, with the
\* id of a submission the store may hold, with the id of one it never holds
JobMetadatas ==
    {("owner" :> Str("x")),
     (JOB_ID_METADATA_KEY :> Str("raysubmit_1")),
     (JOB_ID_METADATA_KEY :> Str("raysubmit_2") @@ "owner" :> Str("x"))}

JobInfoEntries ==
    [job_id : JobIds, metadata : JobMetadatas, serialized_runtime_env : RuntimeEnvs]

\* reply.job_info_list: the registry's job ids are distinct
JobInfoTables ==
    UNION {{t \in [1..n -> JobInfoEntries] :
              \A i, j \in 1..n : t[i].job_id = t[j].job_id => i = j} :
             n \in 0..(IF MaxJobs < Cardinality(JobIds) THEN MaxJobs
                       ELSE Cardinality(JobIds))}

\* a JobInfo of the Job Submission Store
JobInfo(status, message) == [status |-> Str(status), message |-> Str(message)]

\* the contents of the Job Submission Store: submission id -> JobInfo
JobStores ==
    {EmptyMap,
     Str("raysubmit_1") :> JobInfo("RUNNING", "Job is currently running."),
     Str("raysubmit_1") :> JobInfo("FAILED", "Job failed.")}

\* dict.get(key): the value, or None
DictGet(d, k) == IF k \in DOMAIN d THEN d[k] ELSE None

\* JobInfoStorageClient.get_info: the record of the submission, or None
get_info(store, job_submission_id) ==
    IF job_submission_id \in DOMAIN store THEN store[job_submission_id] ELSE None

\* _get_job_info, lines 154-155
GetSubmissionInfo(store, metadata) ==
    get_info(store, DictGet(metadata, JOB_ID_METADATA_KEY))

\* RuntimeEnv.deserialize raises on a runtime env that cannot be decoded
DeserializeRaises(serialized_runtime_env) == ~json_loads(serialized_runtime_env).ok

\* a get_job_info that subscripts the metadata: KeyError without a submission id
JobInfoRaisesOnMissingId(job_info_list) ==
    \E i \in 1..Len(job_info_list) :
        \/ DeserializeRaises(job_info_list[i].serialized_runtime_env)
        \/ JOB_ID_METADATA_KEY \notin DOMAIN job_info_list[i].metadata

\* the loop of lines 163-182 raises: only RuntimeEnv.deserialize can
JobInfoRaises(job_info_list) ==
    \E i \in 1..Len(job_info_list) :
        DeserializeRaises(job_info_list[i].serialized_runtime_env)

\* lines 174-181; of the fields copied from the job table entry the model
\* keeps the metadata
JobEntry(job_table_entry, info) ==
    [status |-> IF info = None THEN None ELSE info.status,
     status_message |-> IF info = None THEN None ELSE info.message,
     config |-> [metadata |-> job_table_entry.metadata]]

RECURSIVE JobsDict(_, _)
\* the dict jobs after the loop of lines 163-182
JobsDict(job_info_list, store) ==
    IF job_info_list = <<>> THEN EmptyMap
    ELSE LET n == Len(job_info_list)
             job_table_entry == job_info_list[n]
         IN  DictSet(JobsDict(SubSeq(job_info_list, 1, n - 1), store),
                     hex(job_table_entry.job_id),
                     JobEntry(job_table_entry,
                              GetSubmissionInfo(store, job_table_entry.metadata)))

\* get_job_info awaited on its own: lines 159-160
GetJobInfo(r) ==
    /\ jobsF[r] = "none"
    /\ resp[r] = "none"
    /\ jobsF' = [jobsF EXCEPT ![r] = "rpc"]
    /\ UNCHANGED <<resp, snap, jobsubF, serveF, serveData, sessF, envVars,
                   actorVars, poolVars, otherVars>>

\* get_job_info after GetAllJobInfo(timeout=5), with the dict it builds: the
\* call times out; or the loop reads the Job Submission Store for every
\* entry and the dict is returned, or RuntimeEnv.deserialize raises
JobInfoReply(r) ==
    /\ jobsF[r] = "rpc"
    /\ \/ /\ jobsF' = [jobsF EXCEPT ![r] = "err"]
          /\ UNCHANGED jobVars
       \/ \E job_info_list \in JobInfoTables, store \in JobStores :
            /\ jobReply' = [jobReply EXCEPT ![r] =
                              [received |-> TRUE, job_info_list |-> job_info_list]]
            /\ jobStore' = [jobStore EXCEPT ![r] = store]
            /\ IF JobInfoRaises(job_info_list)
               THEN /\ jobsF' = [jobsF EXCEPT ![r] = "err"]
                    /\ UNCHANGED jobsData
               ELSE /\ jobsF' = [jobsF EXCEPT ![r] = "ok"]
                    /\ jobsData' = [jobsData EXCEPT ![r] =
                                      JobsDict(job_info_list, store)]
    /\ UNCHANGED <<resp, snap, jobsubF, serveF, serveData, sessF, envVars,
                   actorVars, poolVars, activityVars, killVars, wfVars, inlineOps>>

NextJobs ==
    \E r \in Followed :
        \/ GetJobInfo(r)
        \/ JobInfoReply(r)

SpecJobs == InitPool /\ [][NextJobs]_vars

(***************************************************************************)
(* Named step outputs of a workflow: test_get_non_exist_output.            *)
(* An object ref is keyed by the name it was requested for, None for the   *)
(* workflow's own output.                                                  *)
(***************************************************************************)
\* the state the test and the workflow leave alone
wfOthers == <<envVars, topVars, actorVars, poolVars, activityVars, killVars,
              jobVars, inlineOps>>

workflow_id == "test_get_non_exist_output"

\* the dag of the test: the step named "simple", which returns "hello"
DagSteps == "simple" :> "hello"

\* the step whose output is the workflow's output
DagOutputStep == "simple"

\* the names get_output is called with: the step's, one that no step has,
\* one that differs from the step's by its case
RequestedNames == {"simple", "non_exist", "Simple"}

Pending == [state |-> "pending"]

Value(v) == [state |-> "value", value |-> v]

\* a message that does not say which name was requested
NotFoundMessageUnnamed(wf_id, name) ==
    <<"Cannot load output from a step that does not exist in workflow ", wf_id>>

\* the message of the error for a named output that does not exist
NotFoundMessage(wf_id, name) ==
    <<"Cannot load output from step id ", name, " in workflow ", wf_id>>

NotFound(wf_id, name) ==
    [state |-> "error", type |-> "ValueError", message |-> NotFoundMessage(wf_id, name)]

\* whether the output a ref stands for can be told yet
Resolvable(ref) ==
    IF ref = None THEN wfStatus = "finished"
    ELSE ref.str \in DOMAIN DagSteps => ref.str \in DOMAIN wfOutputs

\* the output a ref stands for: the workflow's, a named step's, or the
\* error for a name no step has
OutputOf(ref) ==
    IF ref = None THEN Value(wfOutputs[DagOutputStep])
    ELSE IF ref.str \in DOMAIN DagSteps THEN Value(wfOutputs[ref.str])
    ELSE NotFound(workflow_id, ref.str)

\* line 201: with FileLock(lock_path)
TestLock ==
    /\ testPc = "start"
    /\ wfLock = "free"
    /\ wfLock' = "test"
    /\ testPc' = "locked"
    /\ UNCHANGED <<wfStatus, wfOutputs, wfRefs, wfGot>>
    /\ UNCHANGED wfOthers

\* lines 202-203: ret = workflow.run_async(dag, workflow_id=workflow_id)
RunAsync ==
    /\ testPc = "locked"
    /\ testPc' = "running"
    /\ wfStatus' = "running"
    /\ wfRefs' = (None :> Pending)
    /\ UNCHANGED <<wfLock, wfOutputs, wfGot>>
    /\ UNCHANGED wfOthers

\* lines 204-205: workflow.get_output(workflow_id, name=...), while the test
\* holds the lock
GetOutput(name) ==
    /\ testPc = "running"
    /\ Str(name) \notin DOMAIN wfRefs
    /\ wfRefs' = DictSet(wfRefs, Str(name), Pending)
    /\ UNCHANGED <<testPc, wfLock, wfStatus, wfOutputs, wfGot>>
    /\ UNCHANGED wfOthers

\* the end of the with block of line 201
TestUnlock ==
    /\ testPc = "running"
    /\ wfLock' = "free"
    /\ testPc' = "released"
    /\ UNCHANGED <<wfStatus, wfOutputs, wfRefs, wfGot>>
    /\ UNCHANGED wfOthers

\* lines 194-197: a step of the running workflow takes the lock and returns
\* its value; with its last step the workflow finishes
StepRun(name) ==
    /\ wfStatus = "running"
    /\ wfLock = "free"
    /\ name \in DOMAIN DagSteps \ DOMAIN wfOutputs
    /\ wfOutputs' = DictSet(wfOutputs, name, DagSteps[name])
    /\ wfStatus' = IF DOMAIN wfOutputs' = DOMAIN DagSteps THEN "finished" ELSE "running"
    /\ UNCHANGED <<testPc, wfLock, wfRefs, wfGot>>
    /\ UNCHANGED wfOthers

\* the workflow manager fulfils an object ref
Resolve(ref) ==
    /\ ref \in DOMAIN wfRefs
    /\ wfRefs[ref] = Pending
    /\ Resolvable(ref)
    /\ wfRefs' = DictSet(wfRefs, ref, OutputOf(ref))
    /\ UNCHANGED <<testPc, wfLock, wfStatus, wfOutputs, wfGot>>
    /\ UNCHANGED wfOthers

\* lines 207-210: ray.get of a ref returns its value or raises its error
RayGet(ref) ==
    /\ testPc = "released"
    /\ ref \in DOMAIN wfRefs \ DOMAIN wfGot
    /\ wfRefs[ref] # Pending
    /\ wfGot' = DictSet(wfGot, ref, wfRefs[ref])
    /\ UNCHANGED <<testPc, wfLock, wfStatus, wfOutputs, wfRefs>>
    /\ UNCHANGED wfOthers

WorkflowRefs == {None} \cup {Str(n) : n \in RequestedNames}

NextWorkflow ==
    \/ TestLock
    \/ RunAsync
    \/ \E name \in RequestedNames : GetOutput(name)
    \/ TestUnlock
    \/ \E name \in DOMAIN DagSteps : StepRun(name)
    \/ \E ref \in WorkflowRefs : Resolve(ref) \/ RayGet(ref)

SpecWorkflow == InitPool /\ [][NextWorkflow]_vars


(***************************************************************************)
(* Properties.                                                             *)
(***************************************************************************)
HasServe(entry) == "serve" \in DOMAIN entry.metadata

Max(S) == CHOOSE m \in S : \A x \in S : x <= m

\* a task that runs get_deployments
IsResolverTask(t) == t[2] \in {"serve", "actor"}

\* C1: while one of the five fetches of a request has raised or timed out, no
\* success response and no snapshot payload has been returned for the
\* request: it is still pending or has failed.
C1_NoPartialSuccess ==
    \A r \in Requests :
        (\/ jobsF[r] = "err"
         \/ jobsubF[r] = "err"
         \/ actorPc[r] = "err"
         \/ serveF[r] = "err"
         \/ sessF[r] = "err")
        => resp[r] \in {"pending", "error"} /\ snap[r] = NoSnapshot

\* four fetches have returned, the session name lookup has raised, and the
\* request has failed without a payload
C1_Witness ==
    \E r \in Requests :
        /\ resp[r] = "error"
        /\ snap[r] = NoSnapshot
        /\ sessF[r] = "err"
        /\ jobsF[r] = "ok" /\ jobsubF[r] = "ok" /\ serveF[r] = "ok"
        /\ actorPc[r] = "done"
        /\ DOMAIN actors[r] # {}

\* C2: when get_actor_info returns, every replica of the resolved deployment
\* snapshot that is in the actor map carries that deployment's serve
\* metadata, and no other actor carries serve metadata.
C2_JoinResult ==
    \A r \in Requests :
        actorPc[r] = "done" =>
            /\ \A h \in DOMAIN deployments[r] :
                 \A a \in DOMAIN deployments[r][h]["actors"] :
                    a \in DOMAIN actors[r] =>
                        /\ HasServe(actors[r][a])
                        /\ actors[r][a].metadata["serve"] =
                             [replica_tag |-> deployments[r][h]["actors"][a]["replica_tag"],
                              deployment_name |-> deployments[r][h]["name"],
                              version |-> deployments[r][h]["actors"][a]["version"]]
            /\ \A a \in DOMAIN actors[r] :
                 HasServe(actors[r][a]) => a \in ReplicaIds(deployments[r])

\* C3: serve metadata is attached to an actor only when every actor record of
\* the registry's reply has been entered in the actor map.
C3_JoinAfterInputs ==
    \A r \in Requests :
        (\E a \in DOMAIN actors[r] : HasServe(actors[r][a]))
        => DOMAIN actors[r] = SeqRange(reply[r])

\* C4: the activity response of a job table has is_active = (n > 0) and
\* reason None when n = 0, else the text with n, where n is the number of
\* jobs that are not dead and whose namespace does not start with the
\* reserved prefix; so it is inactive with no reason iff every job is dead or
\* internal.
C4_ActivityClassification ==
    actPc = "done" =>
        LET counted == {i \in 1..Len(actReply) :
                          /\ actReply[i].is_dead = FALSE
                          /\ ~(/\ Len(actReply[i].ray_namespace) >= 2
                               /\ actReply[i].ray_namespace[1] = "_ray_internal"
                               /\ actReply[i].ray_namespace[2] = "_job_info_")}
            n == Cardinality(counted)
        IN  /\ actResult.is_active = (n > 0)
            /\ n = 0 => actResult.reason = NoReason
            /\ n > 0 => actResult.reason =
                          [kind |-> "str", text |-> "Number of active drivers: ", number |-> n]
            /\ (actResult.is_active = FALSE /\ actResult.reason = NoReason)
               <=> (\A i \in 1..Len(actReply) : i \notin counted)

\* {A dead/user, B alive/user, C alive/internal} is active with count 1
C4_Witness ==
    /\ actPc = "done"
    /\ actReply = <<[is_dead |-> TRUE, ray_namespace |-> <<"user">>],
                    [is_dead |-> FALSE, ray_namespace |-> <<"user">>],
                    [is_dead |-> FALSE,
                     ray_namespace |-> <<"_ray_internal", "_job_info_", "x">>]>>
    /\ actResult.is_active = TRUE
    /\ actResult.reason.number = 1

\* the deployments of d list a replica that is not in the actor map a
Dangling(a, d) == \E x \in ReplicaIds(d) : x \notin DOMAIN a

\* C5: the actor ids of the map get_actor_info returns are exactly those of
\* the registry's reply; and a join over deployments that list a replica
\* absent from the actor map (every info carrying its name) raises nothing
\* and creates no entry.
C5_DanglingSkipped ==
    /\ [](\A r \in Requests :
            actorPc[r] = "done" => DOMAIN actors[r] = SeqRange(reply[r]))
    /\ [][\A r \in Requests :
            (/\ actorPc[r] = "await"
             /\ actorPc'[r] # "await"
             /\ task[<<r, "actor">>].res.ok
             /\ Dangling(actors[r], task[<<r, "actor">>].res.val)
             /\ \A h \in DOMAIN task[<<r, "actor">>].res.val :
                  "name" \in DOMAIN task[<<r, "actor">>].res.val[h])
            => /\ actorPc'[r] = "loop"
               /\ DOMAIN actors'[r] = DOMAIN actors[r]]_vars

\* get_actor_info has returned an actor with serve metadata although the
\* snapshot lists a replica whose actor has died
C5_Witness ==
    \E r \in Requests :
        /\ actorPc[r] = "done"
        /\ DeadActorId \in ReplicaIds(deployments[r])
        /\ \E a \in DOMAIN actors[r] : HasServe(actors[r][a])

\* C6: in the mapping get_deployments returns, a deployment name that one or
\* more of the scanned keys define has the value of the last key, in scan
\* order, that defines it.
C6_LastWriteWins ==
    \A t \in Tasks :
        (IsResolverTask(t) /\ task[t].phase = "finished" /\ task[t].res.ok) =>
            \A n \in DeploymentNames :
                LET defining == {i \in 1..Len(task[t].vals) : n \in DOMAIN task[t].vals[i]}
                IN  defining # {} =>
                        /\ sha1_hexdigest(n) \in DOMAIN task[t].res.val
                        /\ task[t].res.val[sha1_hexdigest(n)] =
                             task[t].vals[Max(defining)][n]

\* two keys were scanned that define "svc" differently
C6_Witness ==
    \E t \in Tasks :
        /\ IsResolverTask(t) /\ task[t].phase = "finished" /\ task[t].res.ok
        /\ Len(task[t].vals) = 2
        /\ "svc" \in DOMAIN task[t].vals[1] /\ "svc" \in DOMAIN task[t].vals[2]
        /\ task[t].vals[1]["svc"] # task[t].vals[2]["svc"]

\* C7: get_deployments does not fail on a snapshot value that is not JSON: it
\* returns a mapping.
C7_MalformedAbsorbed ==
    \A t \in Tasks :
        (IsResolverTask(t) /\ task[t].phase = "finished") => task[t].res.ok

\* C8: when ray.serve cannot be imported, get_deployments is never handed to
\* the pool (the store is not read), get_serve_info returns {} and does not
\* fail, no actor gets serve metadata, and the request succeeds when the
\* other four fetches do, with empty deployments.
C8_ServeNotInstalled ==
    ~serveInstalled =>
        \A r \in Requests :
            /\ task[<<r, "serve">>].phase = "idle"
            /\ task[<<r, "actor">>].phase = "idle"
            /\ resp[r] # "none" => serveF[r] = "ok" /\ serveData[r] = EmptyMap
            /\ \A a \in DOMAIN actors[r] : ~HasServe(actors[r][a])
            /\ (jobsF[r] = "ok" /\ jobsubF[r] = "ok" /\ sessF[r] = "ok"
                /\ actorPc[r] = "done") => resp[r] # "error"
            /\ resp[r] = "ok" =>
                 /\ snap[r].deployments = EmptyMap
                 /\ \A a \in DOMAIN snap[r].actors : ~HasServe(snap[r].actors[a])

\* a snapshot was returned without serve data although the store lists the
\* returned actor as a replica
C8_Witness ==
    \E r \in Requests :
        /\ ~serveInstalled
        /\ resp[r] = "ok"
        /\ 1 \in DOMAIN snap[r].actors
        /\ kv[Key1] = JsonText(DocA)

\* C9: at most 2 of the calls handed to the pool are executing, and a queued
\* call starts only while fewer than 2 are executing.
C9_PoolBounded ==
    /\ [](Cardinality(Running) <= 2)
    /\ [][\A t \in Tasks :
            (task[t].phase = "queued" /\ task'[t].phase \in RunningPhases)
            => Cardinality(Running) < 2]_vars

\* calls of two requests are executing and a third call waits in the queue
C9_Witness ==
    /\ queue # <<>>
    /\ \E t, u \in Running : t[1] # u[1]

\* C10: get_actor_info calls get_serve_info exactly once.
C10_ResolverCalledOnce ==
    \A r \in Requests : actorPc[r] = "done" => resolverCalls[r] = 1

\* C11: the join leaves the deployment data it reads as the resolver returned
\* it, and a second run of the join on the actor map and the deployments of
\* a first run changes neither.
C11_JoinPureIdempotent ==
    /\ [][\A r \in Requests :
            (actorPc[r] = "await" /\ actorPc'[r] = "loop")
            => deployments'[r] = task[<<r, "actor">>].res.val]_vars
    /\ [](\A r \in Requests :
            (actorPc[r] \in {"loop", "done"} /\ idx[r] > 1) =>
                /\ JoinActors(actors[r], deployments[r]) = actors[r]
                /\ JoinDeployments(actors[r], deployments[r]) = deployments[r])

\* the join has run over four deployments and attached serve metadata to
\* both actors of the table
C11_Witness ==
    \E r \in Requests :
        /\ actorPc[r] = "loop"
        /\ idx[r] > 1
        /\ Cardinality(DOMAIN deployments[r]) = 4
        /\ \A a \in ActorIds : a \in DOMAIN actors[r] /\ HasServe(actors[r][a])

\* C12: the handler never raises while parsing the timeout parameter, and the
\* timeout it passes to GetAllJobInfo is the parameter's integer value when
\* the parameter is a non-empty string of decimal digits and 5 when it is
\* absent or anything else.
C12_TimeoutParsing ==
    /\ actPc # "raised"
    /\ actPc \in {"rpc", "done", "err"} =>
         LET numeric == /\ actQuery # <<"None">>
                        /\ Len(actQuery) > 0
                        /\ \A i \in 1..Len(actQuery) :
                             actQuery[i] \in {"0", "1", "2", "3", "4", "5", "6", "7",
                                              "8", "9", "ARABIC-INDIC DIGIT THREE"}
         IN  IF numeric
             THEN actTimeout = CASE actQuery = <<"7">> -> 7
                                 [] actQuery = <<"1", "0">> -> 10
                                 [] actQuery = <<"0", "7">> -> 7
                                 [] actQuery = <<"ARABIC-INDIC DIGIT THREE">> -> 3
             ELSE actTimeout = 5

\* C13: a kill request whose actor_id is absent or empty gets the response
\* success=False with the message "actor_id is required.", and no
\* KillActorViaGcs request is sent for it, whatever its two flags are.
C13_KillWithoutActorId ==
    (/\ killQuery # [received |-> FALSE]
     /\ killQuery.query.actor_id \in {[none |-> TRUE], [str |-> <<>>]})
    => /\ killPc = "done"
       /\ killResp = [returned |-> TRUE, success |-> FALSE,
                      message |-> <<"actor_id is required.">>]
       /\ killRequests = <<>>

\* a request with an empty actor_id and force_kill=true has been answered
C13_Witness ==
    /\ killPc = "done"
    /\ killQuery.query.actor_id = [str |-> <<>>]
    /\ killQuery.query.force_kill = [str |-> <<"t", "r", "u", "e">>]
    /\ killResp.success = FALSE

\* C17: each of the two flags the handler parses is true iff the query value
\* is exactly "true" or "True", and the flags of the request sent to the GCS
\* are the parsed flags.
C17_FlagExactMatch ==
    killQuery # [received |-> FALSE] =>
        /\ \A f \in {"force_kill", "no_restart"} :
             killFlags[f] = (killQuery.query[f] \in {[str |-> <<"t", "r", "u", "e">>],
                                                     [str |-> <<"T", "r", "u", "e">>]})
        /\ \A i \in 1..Len(killRequests) :
             /\ killRequests[i].force_kill = killFlags.force_kill
             /\ killRequests[i].no_restart = killFlags.no_restart

\* a request with force_kill=TRUE and no_restart=True was sent on with
\* force_kill false and no_restart true
C17_Witness ==
    /\ killPc = "rpc"
    /\ killQuery.query.force_kill = [str |-> <<"T", "R", "U", "E">>]
    /\ killQuery.query.no_restart = [str |-> <<"T", "r", "u", "e">>]
    /\ killRequests = <<[actor_id |-> <<1, 255>>, force_kill |-> FALSE,
                         no_restart |-> TRUE]>>

\* C14: when get_deployments gets a missing or empty value for a snapshot
\* key, it does not raise and takes the value as the empty object; and the
\* mapping it returns is the one it returns for the other keys' values alone.
C14_MissingValueIsEmptyObject ==
    /\ [][\A t \in Tasks :
            (/\ IsResolverTask(t)
             /\ task[t].phase = "getting"
             /\ task'[t] # task[t]
             /\ kv[Head(task[t].keys)].kind \in {"none", "empty"})
            => /\ task'[t].phase \in {"getting", "finished"}
               /\ task'[t].res.ok
               /\ task'[t].vals = Append(task[t].vals, EmptyMap)]_vars
    /\ [](\A t \in Tasks :
            (IsResolverTask(t) /\ task[t].phase = "finished" /\ task[t].res.ok) =>
                task[t].res.val =
                    ResolveParsed(SelectSeq(task[t].vals, LAMBDA d : DOMAIN d # {})))

\* of two listed keys one had no or an empty value when it was got, and a
\* controller has deleted its key; the resolver returned the other key's
\* deployments
C14_Witness ==
    \E t \in Tasks :
        /\ IsResolverTask(t) /\ task[t].phase = "finished" /\ task[t].res.ok
        /\ Len(task[t].vals) = 2
        /\ \E i \in 1..2 : task[t].vals[i] = EmptyMap
        /\ DOMAIN task[t].res.val # {}
        /\ \E k \in {Key1, Key2} : kv[k] = NoValue

\* C15: when the resolved snapshot is the one deployment "svc" whose info
\* carries only the actors map {a1: {replica_tag: "t", version: "v"}} and a1
\* is in the actor map, the join raises nothing and a1's metadata gets the
\* serve entry {replica_tag: "t", deployment_name: "svc", version: "v"}.
C15_JoinExample ==
    [][\A r \in Requests :
        (/\ actorPc[r] = "await"
         /\ actorPc'[r] # "await"
         /\ task[<<r, "actor">>].res.ok
         /\ \E h \in DOMAIN task[<<r, "actor">>].res.val :
              /\ DOMAIN task[<<r, "actor">>].res.val = {h}
              /\ task[<<r, "actor">>].res.val[h] =
                   [actors |-> (1 :> [replica_tag |-> "t", version |-> "v"])]
         /\ 1 \in DOMAIN actors[r])
        => /\ actorPc'[r] = "loop"
           /\ 1 \in DOMAIN actors'[r]
           /\ "serve" \in DOMAIN actors'[r][1].metadata
           /\ actors'[r][1].metadata["serve"] =
                [replica_tag |-> "t", deployment_name |-> "svc", version |-> "v"]]_vars

\* C16: during a snapshot request the event-loop thread executes no read or
\* scan of the metadata store and no JSON decode itself: each runs on a
\* thread of the pool.
C16_NoInlineBlocking ==
    \A r \in Requests : inlineOps[r] = {}

\* C18: get_job_info does not raise because a job's metadata has no
\* submission id or the store has no record of its submission id; the dict
\* it returns has one entry per job record of the registry's reply, under
\* the job id in hexadecimal, and the entry of such a job has status None
\* and status_message None.
C18_JobWithoutSubmission ==
    \A r \in Requests :
        LET list == jobReply[r].job_info_list
            HexOf == (<<1>> :> <<"0", "1">>) @@ (<<2>> :> <<"0", "2">>)
                     @@ (<<171>> :> <<"a", "b">>)
            NoSubmission(i) ==
                \/ "job_submission_id" \notin DOMAIN list[i].metadata
                \/ list[i].metadata["job_submission_id"] \notin DOMAIN jobStore[r]
        IN  /\ (jobsF[r] = "err" /\ jobReply[r].received) =>
                   \E i \in 1..Len(list) : list[i].serialized_runtime_env = Malformed
            /\ jobsF[r] = "ok" =>
                   /\ DOMAIN jobsData[r] = {HexOf[list[i].job_id] : i \in 1..Len(list)}
                   /\ Cardinality(DOMAIN jobsData[r]) = Len(list)
                   /\ \A i \in 1..Len(list) :
                        NoSubmission(i) =>
                            /\ jobsData[r][HexOf[list[i].job_id]].status = [none |-> TRUE]
                            /\ jobsData[r][HexOf[list[i].job_id]].status_message =
                                 [none |-> TRUE]

\* three jobs were returned: one without a submission id, one whose
\* submission has no record, one whose submission is running
C18_Witness ==
    \E r \in Requests :
        /\ jobsF[r] = "ok"
        /\ Len(jobReply[r].job_info_list) = 3
        /\ \E i, j, k \in 1..3 :
             /\ "job_submission_id" \notin DOMAIN jobReply[r].job_info_list[i].metadata
             /\ jobReply[r].job_info_list[j].metadata =
                  ("job_submission_id" :> [str |-> "raysubmit_2"] @@ "owner" :> [str |-> "x"])
             /\ jobReply[r].job_info_list[k].metadata =
                  ("job_submission_id" :> [str |-> "raysubmit_1"])
        /\ jobsData[r][<<"a", "b">>].status = [str |-> "RUNNING"]

\* C19: the success response of a request is returned in a step before which
\* its job, job submission, actor, deployment and session name fetches have
\* all returned, with no sub-call of the request left on the pool; and the
\* response carries what the actor and deployment fetches returned.
C19_ResponseAfterAllFetches ==
    [][\A r \in Requests :
        (resp[r] # "ok" /\ resp'[r] = "ok") =>
            /\ jobsF[r] = "ok"
            /\ jobsubF[r] = "ok"
            /\ actorPc[r] = "done"
            /\ serveF[r] = "ok"
            /\ sessF[r] = "ok"
            /\ \A k \in PoolKinds : task[<<r, k>>].phase = "idle"
            /\ snap'[r] = [sent |-> TRUE, actors |-> actors[r],
                           deployments |-> serveData[r]]]_vars

\* a response was returned whose actors carry serve metadata of the
\* deployments it returns
C19_Witness ==
    \E r \in Requests :
        /\ resp[r] = "ok"
        /\ snap[r].sent
        /\ DOMAIN snap[r].deployments # {}
        /\ \E a \in DOMAIN snap[r].actors : HasServe(snap[r].actors[a])

\* C20: the keys under which get_deployments returns two distinct deployment
\* names differ, so the mapping it returns has exactly one entry for every
\* name of the merged mapping, under the hash of the name, and the entry is
\* the merged info of that name.
C20_HashRekeying ==
    \A t \in Tasks :
        (IsResolverTask(t) /\ task[t].phase = "finished" /\ task[t].res.ok) =>
            LET vals == task[t].vals
                names == UNION {DOMAIN vals[i] : i \in 1..Len(vals)}
                merged(n) == vals[Max({i \in 1..Len(vals) : n \in DOMAIN vals[i]})][n]
            IN  /\ \A n, m \in names :
                     n # m => sha1_hexdigest(n) # sha1_hexdigest(m)
                /\ Cardinality(DOMAIN task[t].res.val) = Cardinality(names)
                /\ \A n \in names :
                     /\ sha1_hexdigest(n) \in DOMAIN task[t].res.val
                     /\ task[t].res.val[sha1_hexdigest(n)] = merged(n)

\* the resolver returned four deployments, two of which differ by the case
\* style of their names only
C20_Witness ==
    \E t \in Tasks :
        /\ IsResolverTask(t) /\ task[t].phase = "finished" /\ task[t].res.ok
        /\ DOMAIN task[t].res.val = {"a0089182becd921781d5ba1e58fa4d129b24060f",
                                     "ca84d1343b96baa8137c943ed1860e522cacb238",
                                     "02687489ab43db5175c636669da90e1f60ade101",
                                     "f09fd667785a6ff44bd958473692dc5db29b8dfe"}
        /\ task[t].res.val["02687489ab43db5175c636669da90e1f60ade101"]["name"] = "my_app"
        /\ task[t].res.val["f09fd667785a6ff44bd958473692dc5db29b8dfe"]["name"] = "myApp"

\* C21: ray.get of the output requested for a name that no step of the
\* workflow has raises an error whose message contains that name; ray.get of
\* the workflow's own output and of the output of its step "simple", both
\* requested while the workflow cannot finish, return the step's value
\* "hello".
C21_NonExistentOutput ==
    /\ [][\A ref \in DOMAIN wfRefs' \ DOMAIN wfRefs : wfStatus # "finished"]_vars
    /\ [](\A ref \in DOMAIN wfGot :
            IF ref = [none |-> TRUE] \/ ref = [str |-> "simple"]
            THEN wfGot[ref] = [state |-> "value", value |-> "hello"]
            ELSE /\ wfGot[ref].state = "error"
                 /\ \E i \in 1..Len(wfGot[ref].message) :
                      wfGot[ref].message[i] = ref.str)

\* the test's three ray.get calls have been made
C21_Witness ==
    /\ wfStatus = "finished"
    /\ {[none |-> TRUE], [str |-> "simple"], [str |-> "non_exist"]} \subseteq DOMAIN wfGot
    /\ wfGot[[str |-> "non_exist"]].type = "ValueError"

\* C22: in a successful snapshot response every actor that carries serve
\* metadata is a replica of a deployment of the response's deployments
\* field, with the replica_tag and the version the field gives for it.
C22_ResponseConsistent ==
    \A r \in Requests :
        resp[r] = "ok" =>
            \A a \in DOMAIN snap[r].actors :
                HasServe(snap[r].actors[a]) =>
                    \E h \in DOMAIN snap[r].deployments :
                        /\ a \in DOMAIN snap[r].deployments[h]["actors"]
                        /\ snap[r].deployments[h]["actors"][a]["replica_tag"] =
                             snap[r].actors[a].metadata["serve"]["replica_tag"]
                        /\ snap[r].deployments[h]["actors"][a]["version"] =
                             snap[r].actors[a].metadata["serve"]["version"]

\* C23: every snapshot request that has been received is eventually answered
\* with a response or an error and every call handed to the pool eventually
\* finishes, whatever the other requests have on the pool; a call that runs
\* on a pool thread can always take its next step, so none waits for another.
C23_Progress ==
    /\ []<>(/\ \A r \in Requests : resp[r] # "pending"
            /\ \A t \in Tasks : task[t].phase \notin {"queued"} \cup RunningPhases)
    /\ [](\A t \in Running : ENABLED (ScanKeys(t) \/ GetKey(t) \/ GetSession(t)))

\* the followed request waits for its get_deployments call, which is queued
\* behind the calls that occupy both threads, one of them of another request
C23_Witness ==
    /\ resp[1] = "pending"
    /\ Cardinality(Running) = max_workers
    /\ \E t \in Running : t[1] # 1
    /\ \E i \in 1..Len(queue) : queue[i][1] = 1

=============================================================================
